---- MODULE Spec2Model ----
(***************************************************************************)
(* peduncle: an HTTP service with one route, /users, whose POST creates a  *)
(* user row and whose DELETE removes one, over a pooled PostgreSQL client. *)
(* Every request is handled by its own task; a task suspends at each       *)
(* .await (pool get, prepare, query), so the steps of concurrent requests  *)
(* interleave at those points.                                             *)
(***************************************************************************)
EXTENDS Integers, Sequences, FiniteSets, TLC

\* ---- bounds of the model ----
NReq == 2
MaxPoolSize == 2

Reqs == 1..NReq

\* ---- models::User ----
MkUser(u, f, l, p) == [username |-> u, first_name |-> f, last_name |-> l, pwd |-> p]
NoUser == MkUser("", "", "", "")
\* payloads of POST /users: two users that share a username
Users == { MkUser("alice", "Alice", "A", "x"), MkUser("alice", "Alicia", "B", "y") }
\* a row the table may hold from the start
Bob == MkUser("bob", "Bob", "B", "z")
Usernames == { u.username : u \in Users \cup {Bob} }

\* ---- errors::Error ----
NoCode == [some |-> FALSE, code |-> ""]
SomeCode(c) == [some |-> TRUE, code |-> c]
UNIQUE_VIOLATION == "23505"
OtherSqlState == "57014"
NoErr == [kind |-> "none", code |-> NoCode, text |-> ""]
NotFound == [kind |-> "NotFound", code |-> NoCode, text |-> ""]
PGError(code) == [kind |-> "PGError", code |-> code, text |-> ""]
PGMError == [kind |-> "PGMError", code |-> NoCode, text |-> ""]
PoolErrorKinds == {"Timeout", "Backend"}
PoolErrorToString(k) ==
    IF k = "Timeout"
    THEN "Timeout occurred while waiting for a slot to become available"
    ELSE "Error occurred while creating a new object: connection refused"
PoolError(k) == [kind |-> "PoolError", code |-> NoCode, text |-> PoolErrorToString(k)]

\* ---- Result<User, Error>; a delete's Ok(()) carries NoUser ----
Pending == [tag |-> "Pending", user |-> NoUser, err |-> NoErr]
Ok(u) == [tag |-> "Ok", user |-> u, err |-> NoErr]
Err(e) == [tag |-> "Err", user |-> NoUser, err |-> e]
Panic == [tag |-> "Panic", user |-> NoUser, err |-> NoErr]

\* ---- HttpResponse ----
EmptyBody == [tag |-> "empty", text |-> "", user |-> NoUser]
TextBody(s) == [tag |-> "text", text |-> s, user |-> NoUser]
JsonBody(u) == [tag |-> "json", text |-> "", user |-> u]
Response(st, b) == [panic |-> FALSE, status |-> st, body |-> b]
Panicked == [panic |-> TRUE, status |-> 0, body |-> EmptyBody]

\* error_response with the "23505" arm lost
ErrorResponse_NoConflict(e) ==
    CASE e.kind = "NotFound" -> Response(404, EmptyBody)
      [] e.kind = "PoolError" -> Response(500, TextBody(e.text))
      [] e.kind = "PGError" ->
            IF ~e.code.some THEN Panicked ELSE Response(500, EmptyBody)
      [] OTHER -> Response(500, EmptyBody)

\* error_response with the PoolError arm lost
ErrorResponse_PoolEmptyBody(e) ==
    CASE e.kind = "NotFound" -> Response(404, EmptyBody)
      [] e.kind = "PGError" ->
            IF ~e.code.some THEN Panicked
            ELSE IF e.code.code = UNIQUE_VIOLATION THEN Response(409, EmptyBody)
            ELSE Response(500, EmptyBody)
      [] OTHER -> Response(500, EmptyBody)

\* err.code().unwrap().code(): the unwrap panics on an error with no SQLSTATE
ErrorResponse(e) ==
    CASE e.kind = "NotFound" -> Response(404, EmptyBody)
      [] e.kind = "PoolError" -> Response(500, TextBody(e.text))
      [] e.kind = "PGError" ->
            IF ~e.code.some THEN Panicked
            ELSE IF e.code.code = UNIQUE_VIOLATION THEN Response(409, EmptyBody)
            ELSE Response(500, EmptyBody)
      [] OTHER -> Response(500, EmptyBody)

\* ---- the database: rows of table "users", and what a statement returns ----
Row(shape, u) == [shape |-> shape, data |-> u]
Rows(rs, n) == [tag |-> "rows", rows |-> rs, affected |-> n, code |-> NoCode]
DbError(code) == [tag |-> "error", rows |-> << >>, affected |-> 0, code |-> code]
Lookup(tbl, x) == { row \in tbl : row.username = x }

\* sql/add_user.sql: INSERT INTO users(...) VALUES ($1,$2,$3,$4) RETURNING ...;
\* username carries the unique constraint
AddUserSql(tbl, u, shape) ==
    IF Lookup(tbl, u.username) # {}
    THEN [table |-> tbl, res |-> DbError(SomeCode(UNIQUE_VIOLATION))]
    ELSE [table |-> tbl \cup {u}, res |-> Rows(<< Row(shape, u) >>, 1)]

\* sql/del_user.sql: DELETE FROM users WHERE username = $1
DelUserSql(tbl, x) ==
    [table |-> { row \in tbl : row.username # x },
     res |-> Rows(<< >>, Cardinality(Lookup(tbl, x)))]

\* a statement that fails for a reason of the environment changes nothing
Faults == {"none", "dberr", "closed"}
Shapes == {"ok", "malformed"}
FaultResult(tbl, fault) ==
    [table |-> tbl,
     res |-> DbError(IF fault = "dberr" THEN SomeCode(OtherSqlState) ELSE NoCode)]

\* ---- db::add_user / db::del_user after the query's .await ----
FromRowRef(row) == IF row.shape = "ok" THEN Ok(row.data) ELSE Err(PGMError)

\* db::add_user that answers a duplicate with the payload
db_add_user_upsert(qres, user_info) ==
    IF qres.tag = "error"
    THEN IF qres.code = SomeCode(UNIQUE_VIOLATION) THEN Ok(user_info)
         ELSE Err(PGError(qres.code))
    ELSE IF \E i \in 1..Len(qres.rows) : FromRowRef(qres.rows[i]).tag = "Err" THEN Panic
    ELSE IF qres.rows = << >> THEN Err(NotFound)
    ELSE FromRowRef(qres.rows[Len(qres.rows)])

db_add_user(qres, user_info) ==
    IF qres.tag = "error" THEN Err(PGError(qres.code))
    ELSE IF \E i \in 1..Len(qres.rows) : FromRowRef(qres.rows[i]).tag = "Err" THEN Panic
    ELSE IF qres.rows = << >> THEN Err(NotFound)
    ELSE FromRowRef(qres.rows[Len(qres.rows)])

\* db::del_user that reports NotFound when no row matched
db_del_user_checked(qres, username) ==
    IF qres.tag = "error" THEN Err(PGError(qres.code))
    ELSE IF qres.affected = 0 THEN Err(NotFound)
    ELSE Ok(NoUser)

db_del_user(qres, username) ==
    IF qres.tag = "error" THEN Err(PGError(qres.code)) ELSE Ok(NoUser)

\* ---- handlers: the response of a returned Result ----
\* handlers::add_user answering 201 Created
add_user_created(res) ==
    IF res.tag = "Ok" THEN Response(201, JsonBody(res.user)) ELSE ErrorResponse(res.err)

add_user(res) ==
    IF res.tag = "Ok" THEN Response(200, JsonBody(res.user)) ELSE ErrorResponse(res.err)

\* handlers::del_user echoing the username in the body
del_user_echo(res, username) ==
    IF res.tag = "Ok" THEN Response(200, TextBody(username)) ELSE ErrorResponse(res.err)

del_user(res, username) ==
    IF res.tag = "Ok" THEN Response(200, EmptyBody) ELSE ErrorResponse(res.err)

\* the handler's `client` goes out of scope when the handler returns or unwinds
\* a handler that keeps its client past its end
DropClient_leak(h) == h

DropClient(h) == {}

\* ---- state ----
VARIABLES table, pool, free, pc, input, held, qres, result, sent, log
vars == << table, pool, free, pc, input, held, qres, result, sent, log >>

NoInput == [method |-> "", user |-> NoUser, username |-> ""]
Inputs == { [method |-> "POST", user |-> u, username |-> u.username] : u \in Users }
          \cup { [method |-> "DELETE", user |-> NoUser, username |-> x] : x \in Usernames }
NoRes == [tag |-> "none", rows |-> << >>, affected |-> 0, code |-> NoCode]

InitTables == { {Bob} }

Init ==
    /\ table \in InitTables
    /\ \E max_size \in 1..MaxPoolSize : pool = 1..max_size
    /\ free = pool
    /\ pc = [r \in Reqs |-> "idle"]
    /\ input = [r \in Reqs |-> NoInput]
    /\ held = [r \in Reqs |-> {}]
    /\ qres = [r \in Reqs |-> NoRes]
    /\ result = [r \in Reqs |-> Pending]
    /\ sent = [r \in Reqs |-> << >>]
    /\ log = << >>

\* The handler's future completes with res, all within one poll of the task:
\* `client` is dropped (by the return or by the unwinding of a panic) and, if
\* the handler returned, the framework turns the Result into the response
\* (error_response() for an Err, which may itself panic).
Complete(r, res) ==
    /\ result' = [result EXCEPT ![r] = res]
    /\ LET resp == IF res.tag = "Panic" THEN Panicked
                   ELSE IF input[r].method = "POST" THEN add_user(res)
                   ELSE del_user(res, input[r].username)
       IN sent' = [sent EXCEPT ![r] =
                     IF resp.panic THEN sent[r]
                     ELSE Append(sent[r], [status |-> resp.status, body |-> resp.body])]
    /\ free' = free \cup (held[r] \ DropClient(held[r]))
    /\ held' = [held EXCEPT ![r] = DropClient(held[r])]
    /\ pc' = [pc EXCEPT ![r] = "done"]

\* the server hands a deserialized request to a fresh handler task
Dispatch(r) ==
    /\ pc[r] = "idle"
    /\ \A q \in Reqs : q < r => pc[q] # "idle"
    /\ \E i \in Inputs : input' = [input EXCEPT ![r] = i]
    /\ pc' = [pc EXCEPT ![r] = "get"]
    /\ UNCHANGED << table, pool, free, held, qres, result, sent, log >>

\* db_pool.get().await: Ok(client); the slots of the pool are interchangeable,
\* the first free one is handed out
Acquire(r) ==
    /\ pc[r] = "get"
    /\ \E c \in { x \in free : \A y \in free : x <= y } :
         /\ free' = free \ {c}
         /\ held' = [held EXCEPT ![r] = held[r] \cup {c}]
    /\ pc' = [pc EXCEPT ![r] = "prepare"]
    /\ UNCHANGED << table, pool, input, qres, result, sent, log >>

\* db_pool.get().await.map_err(Error::PoolError)?: no slot before the wait
\* timeout, or no connection could be made for a free slot
AcquireFail(r) ==
    /\ pc[r] = "get"
    /\ \E k \in PoolErrorKinds :
         /\ (k = "Timeout") <=> (free = {})
         /\ Complete(r, Err(PoolError(k)))
    /\ UNCHANGED << table, pool, input, qres, log >>

\* client.prepare(..).await.unwrap(): the statement is prepared
Prepare(r) ==
    /\ pc[r] = "prepare"
    /\ pc' = [pc EXCEPT ![r] = "query"]
    /\ UNCHANGED << table, pool, free, input, held, qres, result, sent, log >>

\* client.prepare(..).await.unwrap(): preparation fails and the unwrap panics
PrepareFail(r) ==
    /\ pc[r] = "prepare"
    /\ Complete(r, Panic)
    /\ UNCHANGED << table, pool, input, qres, log >>

\* client.query(..): the database executes the statement, or it fails
Query(r) ==
    /\ pc[r] = "query"
    /\ \E fault \in Faults, shape \in Shapes :
         LET in == input[r]
             out == IF fault # "none" THEN FaultResult(table, fault)
                    ELSE IF in.method = "POST" THEN AddUserSql(table, in.user, shape)
                    ELSE DelUserSql(table, in.username)
         IN /\ (fault # "none" \/ in.method = "DELETE") => shape = "ok"
            /\ table' = out.table
            /\ qres' = [qres EXCEPT ![r] = out.res]
            /\ log' = Append(log, [req |-> r, pre |-> table, post |-> out.table,
                                   fault |-> fault, shape |-> shape])
    /\ pc' = [pc EXCEPT ![r] = "resume"]
    /\ UNCHANGED << pool, free, input, held, result, sent >>

\* the task resumes from the query's .await: the data-access function maps
\* the outcome to its Result and the handler completes
Resume(r) ==
    /\ pc[r] = "resume"
    /\ Complete(r, IF input[r].method = "POST" THEN db_add_user(qres[r], input[r].user)
                   ELSE db_del_user(qres[r], input[r].username))
    /\ UNCHANGED << table, pool, input, qres, log >>

Next ==
    \E r \in Reqs :
       \/ Dispatch(r)
       \/ Acquire(r)
       \/ AcquireFail(r)
       \/ Prepare(r)
       \/ PrepareFail(r)
       \/ Query(r)
       \/ Resume(r)

Spec == Init /\ [][Next]_vars

\* ---- what the properties speak about ----
Done(r) == pc[r] = "done"
InFlight(r) == pc[r] \in {"prepare", "query", "resume"}
IsPost(e) == input[e.req].method = "POST"
IsDelete(e) == input[e.req].method = "DELETE"
NameOf(e) == input[e.req].username
Entries == { log[i] : i \in 1..Len(log) }
Reply(st, b) == << [status |-> st, body |-> b] >>
Unique(tbl) == \A a, b \in tbl : a.username = b.username => a = b
PoolFailed(r) == Done(r) /\ result[r].tag = "Err" /\ result[r].err.kind = "PoolError"

\* who holds which client of the pool
Holding ==
    /\ \A r \in Reqs : Cardinality(held[r]) <= 1
    /\ \A r1, r2 \in Reqs : r1 # r2 => held[r1] \cap held[r2] = {}
    /\ \A r \in Reqs : held[r] \cap free = {}
    /\ free \cup UNION { held[r] : r \in Reqs } = pool
    /\ \A r \in Reqs : InFlight(r) <=> held[r] # {}

\* a step of db::add_user / db::del_user that returns to its caller
DbStepKeepsPool ==
    \A r \in Reqs :
        ((pc[r] = "prepare" /\ pc'[r] = "query") \/ (pc[r] = "query" /\ pc'[r] = "resume"))
        => (free' = free /\ held' = held)

\* statements i < j of the log with an executed delete of i's username between
DeleteBetween(i, j) ==
    \E k \in 1..Len(log) :
        /\ i < k /\ k < j /\ IsDelete(log[k])
        /\ NameOf(log[k]) = NameOf(log[i]) /\ log[k].fault = "none"
Is200(r) == Len(sent[r]) = 1 /\ sent[r][1].status = 200

\* C1: a create-user request whose statement the database executes while the
\* username is absent, and whose returned row maps to a User, inserts exactly
\* the payload (a lookup on the table right after the statement finds a row
\* equal to it in all four fields, the other rows are as before) and is
\* answered 200 with a JSON body equal to the payload in all four fields.
C1_CreateReturnsPayload ==
    \A e \in Entries :
        (IsPost(e) /\ e.fault = "none" /\ e.shape = "ok" /\ Lookup(e.pre, NameOf(e)) = {})
        => /\ Lookup(e.post, NameOf(e)) = { input[e.req].user }
           /\ e.post = e.pre \cup { input[e.req].user }
           /\ Done(e.req) => sent[e.req] = Reply(200, JsonBody(input[e.req].user))

C1_Witness ==
    \E e \in Entries :
        /\ IsPost(e) /\ e.fault = "none" /\ e.shape = "ok"
        /\ Lookup(e.pre, NameOf(e)) = {} /\ Bob \in e.pre
        /\ Done(e.req) /\ sent[e.req] = Reply(200, JsonBody(input[e.req].user))

\* C2: a create-user request whose statement the database executes while the
\* username is present leaves the whole table as it was (the existing row in
\* all four fields, and every other row) and is answered 409.
C2_DuplicateIsConflict ==
    \A e \in Entries :
        (IsPost(e) /\ e.fault = "none" /\ Lookup(e.pre, NameOf(e)) # {})
        => /\ e.post = e.pre
           /\ Done(e.req) => sent[e.req] = Reply(409, EmptyBody)

C2_Witness ==
    \E e \in Entries :
        /\ IsPost(e) /\ e.fault = "none"
        /\ \E row \in Lookup(e.pre, NameOf(e)) : row # input[e.req].user
        /\ Bob \in e.pre
        /\ Done(e.req) /\ sent[e.req] = Reply(409, EmptyBody)

\* C3: a delete-user request whose statement the database executes while the
\* username is present removes exactly that row (a lookup right after finds no
\* row for it, every row with another username is unchanged, no row appears)
\* and is answered 200 with an empty body.
C3_DeleteRemovesExactlyThatRow ==
    \A e \in Entries :
        (IsDelete(e) /\ e.fault = "none" /\ Lookup(e.pre, NameOf(e)) # {})
        => /\ Lookup(e.post, NameOf(e)) = {}
           /\ e.post = e.pre \ Lookup(e.pre, NameOf(e))
           /\ Done(e.req) => sent[e.req] = Reply(200, EmptyBody)

C3_Witness ==
    \E e \in Entries :
        /\ IsDelete(e) /\ e.fault = "none"
        /\ Lookup(e.pre, NameOf(e)) # {} /\ e.post # {} /\ e.post # e.pre
        /\ Done(e.req) /\ sent[e.req] = Reply(200, EmptyBody)

\* C4: a delete-user request whose statement the database executes while the
\* username is absent leaves the table unchanged and is answered 200 with an
\* empty body; and a delete that repeats the delete executed right before it
\* is answered 200 and leaves the table as that first delete left it.
C4_DeleteAbsentIsNoOp ==
    /\ \A e \in Entries :
          (IsDelete(e) /\ e.fault = "none" /\ Lookup(e.pre, NameOf(e)) = {})
          => /\ e.post = e.pre
             /\ Done(e.req) => sent[e.req] = Reply(200, EmptyBody)
    /\ \A i \in 1..Len(log) : \A j \in 1..Len(log) :
          ( /\ j = i + 1 /\ IsDelete(log[i]) /\ IsDelete(log[j])
            /\ NameOf(log[i]) = NameOf(log[j])
            /\ log[i].fault = "none" /\ log[j].fault = "none" )
          => /\ log[j].post = log[i].post
             /\ Done(log[j].req) => sent[log[j].req] = Reply(200, EmptyBody)

C4_Witness ==
    \E i \in 1..Len(log) : \E j \in 1..Len(log) :
        /\ j = i + 1 /\ IsDelete(log[i]) /\ IsDelete(log[j])
        /\ NameOf(log[i]) = NameOf(log[j])
        /\ log[i].fault = "none" /\ log[j].fault = "none"
        /\ log[i].post # log[i].pre
        /\ Done(log[i].req) /\ Done(log[j].req)
        /\ sent[log[j].req] = Reply(200, EmptyBody)

\* C5: a request whose pool acquisition failed, a create-user as well as a
\* delete-user, is answered 500 with a non-empty text body, the description
\* of the pool error.
C5_PoolErrorIs500WithBody ==
    \A r \in Reqs :
        PoolFailed(r)
        => /\ Len(sent[r]) = 1
           /\ sent[r][1].status = 500
           /\ sent[r][1].body.tag = "text"
           /\ sent[r][1].body.text # ""
           /\ \E k \in PoolErrorKinds : sent[r][1].body.text = PoolErrorToString(k)

C5_Witness ==
    \E r1, r2 \in Reqs :
        /\ InFlight(r1) /\ input[r1].method = "POST" /\ free = {}
        /\ PoolFailed(r2) /\ input[r2].method = "DELETE"
        /\ sent[r2] = Reply(500, TextBody(PoolErrorToString("Timeout")))

\* C6: every request whose statement failed in the database for a reason other
\* than a unique-key violation, with or without an SQLSTATE code, is answered
\* 500 with an empty body.
C6_OtherDbErrorIs500 ==
    \A e \in Entries :
        (e.fault # "none" /\ Done(e.req)) => sent[e.req] = Reply(500, EmptyBody)

\* C7: when the row returned by the INSERT does not map to a User, insert-user
\* yields the MappingError kind and the request is answered 500.
C7_MappingErrorIs500 ==
    \A e \in Entries :
        (IsPost(e) /\ e.fault = "none" /\ e.shape = "malformed"
            /\ Lookup(e.pre, NameOf(e)) = {} /\ Done(e.req))
        => /\ result[e.req] = Err(PGMError)
           /\ Len(sent[e.req]) = 1 /\ sent[e.req][1].status = 500

\* C8: every handling task that has ended has sent exactly one response.
C8_EndsWithOneResponse ==
    \A r \in Reqs : Done(r) => Len(sent[r]) = 1

\* C9: every invocation holds at most one client, no client is held by two
\* invocations, a client is either free or held, an invocation that has not
\* acquired yet or has ended (by a response or by a panic) holds none, and the
\* steps of the data-access functions (prepare, query) leave the pool and
\* every invocation's client as they are.
C9_OneClientPerInvocation == []Holding /\ [][DbStepKeepsPool]_vars

C9_Witness ==
    \E r1, r2 \in Reqs :
        /\ pool = {1}
        /\ Done(r1) /\ result[r1] = Panic
        /\ pc[r2] = "query" /\ held[r2] = {1}

\* C10: the table never holds two rows with one username; and of two
\* create-user statements for one username that the database executes with no
\* executed delete of that username between them, the later one is answered
\* 409, so at most one of the two is answered 200.
C10_UniqueUsername ==
    /\ Unique(table)
    /\ \A i \in 1..Len(log) : \A j \in 1..Len(log) :
          ( /\ i < j /\ IsPost(log[i]) /\ IsPost(log[j])
            /\ NameOf(log[i]) = NameOf(log[j])
            /\ log[i].fault = "none" /\ log[j].fault = "none"
            /\ ~DeleteBetween(i, j) )
          => /\ ~(Is200(log[i].req) /\ Is200(log[j].req))
             /\ Done(log[j].req) => sent[log[j].req] = Reply(409, EmptyBody)

C10_Witness ==
    \E i \in 1..Len(log) : \E j \in 1..Len(log) :
        /\ i < j /\ IsPost(log[i]) /\ IsPost(log[j])
        /\ NameOf(log[i]) = NameOf(log[j])
        /\ Lookup(log[i].pre, NameOf(log[i])) = {} /\ log[i].shape = "ok"
        /\ log[i].fault = "none" /\ log[j].fault = "none"
        /\ pc[log[i].req] = "resume"
        /\ sent[log[j].req] = Reply(409, EmptyBody)

====
